---- MODULE Spec2Model ----
(***************************************************************************)
(* Model of the Prometheus-driven auto-scaler                              *)
(* (prometheus-autoscale-sim/scaler/scaler.py): the decision engine        *)
(* ScalingDecisionEngine.decide_scale, the cooldown functions              *)
(* check_cooldown / update_scale_state and the control loop of main().     *)
(*                                                                         *)
(* Units: metrics and thresholds are in tenths of a second (0.6 s = 6),    *)
(* times are in seconds.  An absent value (Python None) is None.           *)
(***************************************************************************)
EXTENDS Integers, Sequences, FiniteSets, TLC

\* ------------------------------------------------------------------------
\* Configuration (scaler.py:46-60, the defaults of the environment)
\* ------------------------------------------------------------------------
SCALE_UP_THRESHOLD == 6
SCALE_DOWN_THRESHOLD == 2
CHECK_INTERVAL == 10
SCALE_UP_COOLDOWN == 30
SCALE_DOWN_COOLDOWN == 60
SCALE_UP_BREACHES_REQUIRED == 2
SCALE_DOWN_BREACHES_REQUIRED == 3
\* subprocess.run(..., timeout=120) in AnsibleExecutor.scale_service
ANSIBLE_TIMEOUT == 120
\* wait_for_prometheus(prom_client, max_retries=30)
MAX_RETRIES == 30
\* "Keep only last 100 entries" (decide_scale) and "last 50 scaling actions"
HISTORY_LIMIT == 100
SCALING_HISTORY_LIMIT == 50

\* Optional[...] = None
None == -1

\* ------------------------------------------------------------------------
\* Bounds of the model
\* ------------------------------------------------------------------------
\* the clock stops the run when it would pass MaxTime seconds
MaxTime == 160
\* largest number of running containers the replica source reports
MaxObserved == 8
\* number of ticks of a scripted metric stream
ScriptLen == 4

\* metric samples (tenths of a second): below, at and above each threshold,
\* exactly twice and more than twice the scale-up threshold, and absent
Metrics == {None, 1, 2, 6, 7, 12, 15}
\* time a successful playbook run may take (less than ANSIBLE_TIMEOUT)
OkDurations == {0, 20}
\* replica counts a scripted run starts from
StartReplicas == {2, 3, 5, 6}

VARIABLES
    pc,                             \* position of main()'s loop body
    now,                            \* time.time()
    running,                        \* containers actually running
    avg_response_time,              \* main: result of prom_client.query
    current_replicas,               \* main: result of get_current_replicas
    target_replicas,                \* main: result of decide_scale
    consecutive_threshold_breaches, \* global
    last_scale_time,                \* global
    last_scale_action,              \* global: "none" is Python None
    call,                           \* argument of this tick's scale_service call
    result,                         \* outcome of this tick's scale_service call
    all_in_band,                    \* every sample so far was present and in band
    all_absent,                     \* every sample so far was absent
    script,                         \* scripted metric stream (<<>>: any stream)
    log,                            \* per tick of a scripted stream: what happened
    env,                            \* os.environ: MIN_REPLICAS and MAX_REPLICAS
    attempt,                        \* wait_for_prometheus: health checks failed
    ready,                          \* result of the last health check
    exit_code,                      \* sys.exit status (None: still running)
    raised,                         \* this tick was cut short by an exception
    read_ok,                        \* this tick's docker command succeeded
    history,                        \* ScalingDecisionEngine.history
    scaling_history                 \* global

vars == <<pc, now, running, avg_response_time, current_replicas,
          target_replicas, consecutive_threshold_breaches, last_scale_time,
          last_scale_action, call, result, all_in_band, all_absent, script, log,
          env, attempt, ready, exit_code, raised, read_ok, history,
          scaling_history>>

\* int(os.environ.get('MAX_REPLICAS', '6')), int(os.environ.get('MIN_REPLICAS', '1'))
MAX_REPLICAS == env.MAX_REPLICAS
MIN_REPLICAS == env.MIN_REPLICAS

\* the defaults of scaler.py:48-49
DefaultEnv == [MIN_REPLICAS |-> 1, MAX_REPLICAS |-> 6]

Min(a, b) == IF a < b THEN a ELSE b
Max(a, b) == IF a > b THEN a ELSE b

\* ------------------------------------------------------------------------
\* ScalingDecisionEngine.decide_scale (scaler.py:357-483)
\* ------------------------------------------------------------------------
\* the comparison of line 409 written with >= (a sample at the threshold breaches)
AboveUp_Inclusive(current_metric, threshold_up) == current_metric >= threshold_up

\* current_metric > threshold_up (line 409)
AboveUp(current_metric, threshold_up) == current_metric > threshold_up

\* the comparison of line 446 written with <=
BelowDown_Inclusive(current_metric, threshold_down) == current_metric <= threshold_down

\* current_metric < threshold_down (line 446)
BelowDown(current_metric, threshold_down) == current_metric < threshold_down

\* lines 382-385 left out: an absent sample is compared like a number
MetricMissing_Never(current_metric) == FALSE

\* current_metric is None (line 382)
MetricMissing(current_metric) == current_metric = None

\* the comparison of line 422 written with >=
SevereOverload_Inclusive(current_metric, threshold_up) == current_metric >= 2 * threshold_up

\* overshoot_ratio = current_metric / threshold_up; overshoot_ratio > 2.0
\* (lines 420-422), over the rationals
SevereOverload(current_metric, threshold_up) == current_metric > 2 * threshold_up

\* lines 422-427
Increment(current_metric, current, threshold_up, max_replicas) ==
    IF SevereOverload(current_metric, threshold_up)
    THEN Min(2, max_replicas - current)
    ELSE 1

\* line 429 with the sign of the step reversed
ScaleUpTarget_Minus(current_metric, current, threshold_up, max_replicas) ==
    Min(max_replicas, current - Increment(current_metric, current, threshold_up, max_replicas))

\* lines 429 and 457
ScaleUpTarget(current_metric, current, threshold_up, max_replicas) ==
    Min(max_replicas, current + Increment(current_metric, current, threshold_up, max_replicas))

\* line 383 left out: a missing metric leaves the counter as it was
BreachesOnMissing_Keep(breaches) == breaches

\* lines 382-385: what a missing metric does to the breach counter
BreachesOnMissing(breaches) == 0

\* lines 440 and 468 left out: the counter keeps its value at a limit
BreachesAtLimit_Keep(breaches) == breaches

\* lines 436-441 and 464-469: the counter after a confirmed breach at a limit
BreachesAtLimit(breaches) == 0

\* line 457 stepping down by two
ScaleDownTarget_Two(current, min_replicas) == Max(min_replicas, current - 2)

ScaleDownTarget(current, min_replicas) == Max(min_replicas, current - 1)

\* decide_scale consulting the cooldown itself: no scale-up is returned
\* while SCALE_UP_COOLDOWN has not passed since the last recorded action
decide_scale_Gated(current_metric, current, threshold_up, threshold_down, min_replicas, max_replicas, breaches) ==
    IF MetricMissing(current_metric)
    THEN [target |-> None, breaches |-> BreachesOnMissing(breaches)]
    ELSE IF AboveUp(current_metric, threshold_up)
    THEN IF breaches + 1 >= SCALE_UP_BREACHES_REQUIRED
         THEN IF /\ current < max_replicas
                 /\ (last_scale_action = "none" \/ now - last_scale_time >= SCALE_UP_COOLDOWN)
              THEN [target |-> ScaleUpTarget(current_metric, current, threshold_up, max_replicas),
                    breaches |-> 0]
              ELSE [target |-> None, breaches |-> BreachesAtLimit(breaches + 1)]
         ELSE [target |-> None, breaches |-> breaches + 1]
    ELSE IF BelowDown(current_metric, threshold_down)
    THEN IF breaches + 1 >= SCALE_DOWN_BREACHES_REQUIRED
         THEN IF current > min_replicas
              THEN [target |-> ScaleDownTarget(current, min_replicas), breaches |-> 0]
              ELSE [target |-> None, breaches |-> BreachesAtLimit(breaches + 1)]
         ELSE [target |-> None, breaches |-> breaches + 1]
    ELSE [target |-> None, breaches |-> 0]

\* The whole function: the returned target and the new value of the global
\* consecutive_threshold_breaches.
decide_scale(current_metric, current, threshold_up, threshold_down, min_replicas, max_replicas, breaches) ==
    IF MetricMissing(current_metric)
    THEN [target |-> None, breaches |-> BreachesOnMissing(breaches)]
    ELSE IF AboveUp(current_metric, threshold_up)
    THEN IF breaches + 1 >= SCALE_UP_BREACHES_REQUIRED
         THEN IF current < max_replicas
              THEN [target |-> ScaleUpTarget(current_metric, current, threshold_up, max_replicas),
                    breaches |-> 0]
              ELSE [target |-> None, breaches |-> BreachesAtLimit(breaches + 1)]
         ELSE [target |-> None, breaches |-> breaches + 1]
    ELSE IF BelowDown(current_metric, threshold_down)
    THEN IF breaches + 1 >= SCALE_DOWN_BREACHES_REQUIRED
         THEN IF current > min_replicas
              THEN [target |-> ScaleDownTarget(current, min_replicas), breaches |-> 0]
              ELSE [target |-> None, breaches |-> BreachesAtLimit(breaches + 1)]
         ELSE [target |-> None, breaches |-> breaches + 1]
    ELSE [target |-> None, breaches |-> 0]

\* ------------------------------------------------------------------------
\* Cooldown management (scaler.py:614-664)
\* ------------------------------------------------------------------------
\* lines 636-639 with the cooldowns taken for minutes
RequiredCooldown_Minutes(action) ==
    60 * (IF action = "up" THEN SCALE_UP_COOLDOWN ELSE SCALE_DOWN_COOLDOWN)

\* lines 636-639: the cooldown is chosen by the proposed action
RequiredCooldown(action) ==
    IF action = "up" THEN SCALE_UP_COOLDOWN ELSE SCALE_DOWN_COOLDOWN

check_cooldown(action) ==
    IF last_scale_action = "none"
    THEN TRUE
    ELSE ~(now - last_scale_time < RequiredCooldown(action))

\* ------------------------------------------------------------------------
\* main() (scaler.py:740-840)
\* ------------------------------------------------------------------------
\* line 790
ScalingRequired(target, current) == target # None /\ target # current

\* line 791
Direction(target, current) == IF target > current THEN "up" ELSE "down"

\* line 807 passing the wrong local
ScaleArgument_Current == current_replicas

\* line 807: the argument of ansible_executor.scale_service
ScaleArgument == target_replicas

\* line 809 run whatever scale_service returned
AfterScale_Always(ok) == "update"

\* lines 807-811 as a retry: a failed call is made again at once
AfterScale_Retry(ok) == IF ok THEN "update" ELSE "scale"

\* lines 807-811: update_scale_state runs only when scale_service returned True
AfterScale(ok) == IF ok THEN "update" ELSE "sleep"

Scripted == script # <<>>

\* the samples the metrics source may return on this tick
NextMetrics == IF Scripted THEN {script[Len(log) + 1]} ELSE Metrics

\* the histories are followed in scripted runs only: nothing on the path
\* from a sample to an actuation reads them (history is read at lines
\* 401-404 for a debug message and by get_scaling_statistics)
Recording == Scripted

\* Step 1: avg_response_time = prom_client.query(query)
Query ==
    /\ pc = "query"
    /\ Scripted => Len(log) < Len(script)
    /\ \E m \in NextMetrics :
          /\ avg_response_time' = m
          /\ all_in_band' = (all_in_band /\ m # None
                             /\ m >= SCALE_DOWN_THRESHOLD /\ m <= SCALE_UP_THRESHOLD)
          /\ all_absent' = (all_absent /\ m = None)
    /\ pc' = "replicas"
    /\ UNCHANGED <<now, running, current_replicas, target_replicas,
                   consecutive_threshold_breaches, last_scale_time,
                   last_scale_action, call, result, script, log>>
    /\ UNCHANGED <<env, attempt, ready, exit_code, raised, read_ok, history,
                   scaling_history>>

\* Step 2: current_replicas = docker_manager.get_current_replicas()
\* (scaler.py:260-300).  Outside a scripted run the number of running
\* containers is whatever the outside world made it, and the docker command
\* may fail, in which case MIN_REPLICAS is returned.
WorldCounts == IF Scripted THEN {running} ELSE 0..MaxObserved
ReadOutcomes == IF Scripted THEN {TRUE} ELSE {TRUE, FALSE}

\* lines 291-300 returning 0, the count of an empty listing
get_current_replicas_Zero(count, ok) == IF ok THEN count ELSE 0

get_current_replicas(count, ok) == IF ok THEN count ELSE MIN_REPLICAS

GetCurrentReplicas ==
    /\ pc = "replicas"
    /\ \E count \in WorldCounts, ok \in ReadOutcomes :
          /\ running' = count
          /\ read_ok' = ok
          /\ current_replicas' = get_current_replicas(count, ok)
    /\ pc' = "decide"
    /\ UNCHANGED <<now, avg_response_time, target_replicas,
                   consecutive_threshold_breaches, last_scale_time,
                   last_scale_action, call, result, all_in_band, all_absent,
                   script, log>>
    /\ UNCHANGED <<env, attempt, ready, exit_code, raised, history,
                   scaling_history>>

\* list.pop(0) once the list is longer than limit (lines 397-398, 606-607)
\* written as list.pop(): the newest entry goes
KeepLast_DropNewest(h, limit) ==
    IF Len(h) > limit THEN SubSeq(h, 1, Len(h) - 1) ELSE h

KeepLast(h, limit) == IF Len(h) > limit THEN Tail(h) ELSE h

\* lines 388-398: self.history.append({...}), then the trim to 100 entries
HistoryEntry ==
    [timestamp |-> now, metric |-> avg_response_time,
     replicas |-> current_replicas, threshold_up |-> SCALE_UP_THRESHOLD,
     threshold_down |-> SCALE_DOWN_THRESHOLD]

\* line 388 written as self.history.insert(0, {...})
append_history_Front(h, entry) == KeepLast(<<entry>> \o h, HISTORY_LIMIT)

append_history(h, entry) == KeepLast(Append(h, entry), HISTORY_LIMIT)

\* Step 3: target_replicas = decision_engine.decide_scale(...), and the test
\* of line 790
DecideScale ==
    /\ pc = "decide"
    /\ LET d == decide_scale(avg_response_time, current_replicas,
                             SCALE_UP_THRESHOLD, SCALE_DOWN_THRESHOLD,
                             MIN_REPLICAS, MAX_REPLICAS,
                             consecutive_threshold_breaches)
       IN /\ target_replicas' = d.target
          /\ consecutive_threshold_breaches' = d.breaches
          /\ pc' = IF ScalingRequired(d.target, current_replicas)
                   THEN "cooldown" ELSE "sleep"
    /\ history' = IF Recording /\ ~MetricMissing(avg_response_time)
                  THEN append_history(history, HistoryEntry)
                  ELSE history
    /\ UNCHANGED <<now, running, avg_response_time, current_replicas,
                   last_scale_time, last_scale_action, call, result,
                   all_in_band, all_absent, script, log>>
    /\ UNCHANGED <<env, attempt, ready, exit_code, raised, read_ok,
                   scaling_history>>

\* line 803 followed by update_scale_state(action): a postponed action
\* restarts the cooldown
CheckCooldown_Rearm ==
    /\ pc = "cooldown"
    /\ pc' = IF check_cooldown(Direction(target_replicas, current_replicas))
             THEN "scale" ELSE "sleep"
    /\ last_scale_time' =
          IF check_cooldown(Direction(target_replicas, current_replicas))
          THEN last_scale_time ELSE now
    /\ UNCHANGED <<now, running, avg_response_time, current_replicas,
                   target_replicas, consecutive_threshold_breaches,
                   last_scale_action, call, result,
                   all_in_band, all_absent, script, log>>
    /\ UNCHANGED <<env, attempt, ready, exit_code, raised, read_ok, history,
                   scaling_history>>

\* Step 4, line 802: if not check_cooldown(action): postponed.
\* pc = "scale": scale_service has been entered and waits in subprocess.run
\* for the playbook.
CheckCooldown ==
    /\ pc = "cooldown"
    /\ pc' = IF check_cooldown(Direction(target_replicas, current_replicas))
             THEN "scale" ELSE "sleep"
    /\ UNCHANGED <<now, running, avg_response_time, current_replicas,
                   target_replicas, consecutive_threshold_breaches,
                   last_scale_time, last_scale_action, call, result,
                   all_in_band, all_absent, script, log>>
    /\ UNCHANGED <<env, attempt, ready, exit_code, raised, read_ok, history,
                   scaling_history>>

\* Step 4, line 807: ansible_executor.scale_service(target_replicas)
\* (scaler.py:534-585).  The playbook succeeds after some time, fails with a
\* non-zero exit code, or is killed at the timeout.
ScaleOutcomes ==
    {[ok |-> TRUE, duration |-> d] : d \in OkDurations}
        \cup {[ok |-> FALSE, duration |-> 0],
              [ok |-> FALSE, duration |-> ANSIBLE_TIMEOUT]}

\* lines 573-585 without their _record_scaling_action calls: a failed run
\* leaves no record
record_scaling_action_OnlySuccess(h, at, target, success, duration) ==
    IF success
    THEN KeepLast(Append(h, [timestamp |-> at, target_replicas |-> target,
                             success |-> success, duration |-> duration]),
                  SCALING_HISTORY_LIMIT)
    ELSE h

\* AnsibleExecutor._record_scaling_action (scaler.py:587-607)
record_scaling_action(h, at, target, success, duration) ==
    KeepLast(Append(h, [timestamp |-> at, target_replicas |-> target,
                        success |-> success, duration |-> duration]),
             SCALING_HISTORY_LIMIT)

ScaleService ==
    /\ pc = "scale"
    /\ \E o \in ScaleOutcomes :
          /\ now + o.duration <= MaxTime
          /\ now' = now + o.duration
          /\ call' = ScaleArgument
          /\ result' = IF o.ok THEN "ok" ELSE "failed"
          /\ running' = IF o.ok THEN ScaleArgument ELSE running
          /\ scaling_history' =
                IF Recording
                THEN record_scaling_action(scaling_history, now + o.duration,
                                           ScaleArgument, o.ok, o.duration)
                ELSE scaling_history
          /\ pc' = AfterScale(o.ok)
    /\ UNCHANGED <<avg_response_time, current_replicas, target_replicas,
                   consecutive_threshold_breaches, last_scale_time,
                   last_scale_action, all_in_band, all_absent, script, log>>
    /\ UNCHANGED <<env, attempt, ready, exit_code, raised, read_ok, history>>

\* Step 4, line 809: update_scale_state(action) (scaler.py:654-664)
UpdateScaleState ==
    /\ pc = "update"
    /\ last_scale_time' = now
    /\ last_scale_action' = Direction(target_replicas, current_replicas)
    /\ pc' = "sleep"
    /\ UNCHANGED <<now, running, avg_response_time, current_replicas,
                   target_replicas, consecutive_threshold_breaches, call,
                   result, all_in_band, all_absent, script, log>>
    /\ UNCHANGED <<env, attempt, ready, exit_code, raised, read_ok, history,
                   scaling_history>>

\* what the log of a scripted run keeps of a tick
TickRecord ==
    [metric |-> avg_response_time, replicas |-> current_replicas,
     target |-> target_replicas, call |-> call, result |-> result,
     breaches |-> consecutive_threshold_breaches, time |-> now]

\* Step 6: time.sleep(CHECK_INTERVAL); the locals of the iteration die
Sleep ==
    /\ pc = "sleep"
    /\ now + CHECK_INTERVAL <= MaxTime
    /\ now' = now + CHECK_INTERVAL
    /\ log' = IF Scripted THEN Append(log, TickRecord) ELSE log
    /\ avg_response_time' = None
    /\ current_replicas' = None
    /\ target_replicas' = None
    /\ call' = None
    /\ result' = "none"
    /\ raised' = FALSE
    /\ read_ok' = TRUE
    /\ pc' = "query"
    /\ UNCHANGED <<running, consecutive_threshold_breaches, last_scale_time,
                   last_scale_action, all_in_band, all_absent, script>>
    /\ UNCHANGED <<env, attempt, ready, exit_code, history, scaling_history>>

Next ==
    \/ Query
    \/ GetCurrentReplicas
    \/ DecideScale
    \/ CheckCooldown
    \/ ScaleService
    \/ UpdateScaleState
    \/ Sleep

\* the state main() enters its loop with (scaler.py:66-69, 737), the first
\* health check having succeeded; now counts the seconds since then
InitLoop ==
    /\ pc = "query"
    /\ now = 0
    /\ avg_response_time = None
    /\ current_replicas = None
    /\ target_replicas = None
    /\ consecutive_threshold_breaches = 0
    /\ last_scale_time = 0
    /\ last_scale_action = "none"
    /\ call = None
    /\ result = "none"
    /\ all_in_band = TRUE
    /\ all_absent = TRUE
    /\ log = <<>>
    /\ env = DefaultEnv
    /\ attempt = 0
    /\ ready = TRUE
    /\ exit_code = None
    /\ raised = FALSE
    /\ read_ok = TRUE

\* any metric stream, any replica counts
Init ==
    /\ InitLoop
    /\ running \in 0..MaxObserved
    /\ script = <<>>
    /\ history = <<>>
    /\ scaling_history = <<>>

Spec == Init /\ [][Next]_vars

\* a scripted metric stream, the replica source reporting what is running
Scripts == [1..ScriptLen -> Metrics]

InitScenario ==
    /\ InitLoop
    /\ running \in StartReplicas
    /\ script \in Scripts
    /\ history = <<>>
    /\ scaling_history = <<>>

SpecScenario == InitScenario /\ [][Next]_vars

\* ------------------------------------------------------------------------
\* The whole process: start-up, the loop, exceptions and interrupts
\* (scaler.py:695-864)
\* ------------------------------------------------------------------------
\* settings of MIN_REPLICAS / MAX_REPLICAS in the environment: the defaults,
\* a narrower range and an inverted one.  Lines 48-49 accept any integers.
Environments ==
    {DefaultEnv,
     [MIN_REPLICAS |-> 2, MAX_REPLICAS |-> 4],
     [MIN_REPLICAS |-> 3, MAX_REPLICAS |-> 2]}

\* positions inside the while loop of main()
LoopPositions == {"query", "replicas", "decide", "cooldown", "scale", "update", "sleep"}

\* line 714 left out: the loop starts although no health check succeeded
AfterRetries_FallThrough == "query"

\* lines 713-714: sys.exit(1) once max_retries health checks have failed
AfterRetries == "exited"

\* wait_for_prometheus (scaler.py:695-714): one health check, and what
\* follows it.  attempt counts the checks that failed; it is a local of
\* wait_for_prometheus and is gone when the function returns.  The clock of
\* the loop has not started; the waits of line 711 are counted by attempt.
HealthCheck ==
    /\ pc = "startup"
    /\ attempt < MAX_RETRIES
    /\ \E healthy \in BOOLEAN :
          /\ attempt' = IF healthy THEN 0 ELSE attempt + 1
          /\ ready' = healthy
          /\ pc' = IF healthy THEN "query"
                   ELSE IF attempt + 1 < MAX_RETRIES THEN "startup"
                   ELSE AfterRetries
          /\ exit_code' = IF ~healthy /\ attempt + 1 >= MAX_RETRIES
                             /\ AfterRetries = "exited"
                          THEN 1 ELSE exit_code
    /\ UNCHANGED <<now, running, avg_response_time, current_replicas,
                   target_replicas, consecutive_threshold_breaches,
                   last_scale_time, last_scale_action, call, result,
                   all_in_band, all_absent, script, log, env, raised, read_ok,
                   history, scaling_history>>

\* lines 833-834 left out: the exception reaches line 862 and sys.exit(1)
AfterException_Fatal == "exited"

\* lines 833-840: the exception is logged and the loop goes on to its sleep
AfterException == "sleep"

\* prom_client.query raises an exception that its own handlers
\* (scaler.py:140-151) do not name, e.g. a TypeError on a malformed body;
\* the rest of the iteration is skipped
TickException ==
    /\ pc = "query"
    /\ raised' = TRUE
    /\ pc' = AfterException
    /\ exit_code' = IF AfterException = "exited" THEN 1 ELSE exit_code
    /\ UNCHANGED <<now, running, avg_response_time, current_replicas,
                   target_replicas, consecutive_threshold_breaches,
                   last_scale_time, last_scale_action, call, result,
                   all_in_band, all_absent, script, log, env, attempt, ready,
                   read_ok, history, scaling_history>>

\* SIGINT: KeyboardInterrupt is raised wherever the loop is, also inside
\* subprocess.run; it is no Exception, so neither line 582 nor line 833
\* catches it, and lines 842-860 end the process with sys.exit(0)
Interrupt ==
    /\ pc \in LoopPositions
    /\ pc' = "exited"
    /\ exit_code' = 0
    /\ UNCHANGED <<now, running, avg_response_time, current_replicas,
                   target_replicas, consecutive_threshold_breaches,
                   last_scale_time, last_scale_action, call, result,
                   all_in_band, all_absent, script, log, env, attempt, ready,
                   raised, read_ok, history, scaling_history>>

NextProcess ==
    \/ HealthCheck
    \/ Next
    \/ TickException
    \/ Interrupt

\* the state main() is called in
InitProcess ==
    /\ pc = "startup"
    /\ now = 0
    /\ avg_response_time = None
    /\ current_replicas = None
    /\ target_replicas = None
    /\ consecutive_threshold_breaches = 0
    /\ last_scale_time = 0
    /\ last_scale_action = "none"
    /\ call = None
    /\ result = "none"
    /\ all_in_band = TRUE
    /\ all_absent = TRUE
    /\ log = <<>>
    /\ env \in Environments
    /\ attempt = 0
    /\ ready = FALSE
    /\ exit_code = None
    /\ raised = FALSE
    /\ read_ok = TRUE
    /\ running \in 0..MaxObserved
    /\ script = <<>>
    /\ history = <<>>
    /\ scaling_history = <<>>

SpecProcess == InitProcess /\ [][NextProcess]_vars

\* ------------------------------------------------------------------------
\* A controller that has been running for a long time: 98 samples above the
\* scale-up threshold at 2 replicas, every second one followed by a failed
\* playbook run, then one sample in band.  The histories are one entry
\* short of their limits.
\* ------------------------------------------------------------------------
PastSamples == HISTORY_LIMIT - 1
PastActions == SCALING_HISTORY_LIMIT - 1

PastTime(k) == 0 - CHECK_INTERVAL * (PastSamples + 1 - k)

PastHistory ==
    [k \in 1..PastSamples |->
        [timestamp |-> PastTime(k),
         metric |-> IF k < PastSamples THEN 7 ELSE SCALE_UP_THRESHOLD,
         replicas |-> 2, threshold_up |-> SCALE_UP_THRESHOLD,
         threshold_down |-> SCALE_DOWN_THRESHOLD]]

PastScalingHistory ==
    [j \in 1..PastActions |->
        [timestamp |-> PastTime(2 * j), target_replicas |-> 3,
         success |-> FALSE, duration |-> 0]]

\* samples of the scripted streams that continue such a run
HistoryMetrics == {None, 1, 7}

InitHistory ==
    /\ InitLoop
    /\ running \in StartReplicas
    /\ script \in [1..ScriptLen -> HistoryMetrics]
    /\ history = PastHistory
    /\ scaling_history = PastScalingHistory

SpecHistory == InitHistory /\ [][Next]_vars

\* ------------------------------------------------------------------------
\* The loop under lasting overload: every sample is above
\* SCALE_UP_THRESHOLD, every playbook run succeeds, and docker reports the
\* count the last successful run has set.  The loop keeps running: each of
\* its steps is taken once it can be.
\* ------------------------------------------------------------------------
\* replica counts at the start of the overload
OverloadStart == {3, 4, 5, 6}

\* the loop is entered fresh, or the overload starts on the tick after a
\* scale-down to 4 or 5 replicas that succeeded at t = 20
InitOverload ==
    /\ script = <<>>
    /\ history = <<>>
    /\ scaling_history = <<>>
    /\ \/ InitLoop /\ running \in OverloadStart
       \/ /\ pc = "query"
          /\ now = 2 * CHECK_INTERVAL + CHECK_INTERVAL
          /\ last_scale_time = 2 * CHECK_INTERVAL
          /\ last_scale_action = "down"
          /\ running \in {4, 5}
          /\ avg_response_time = None
          /\ current_replicas = None
          /\ target_replicas = None
          /\ consecutive_threshold_breaches = 0
          /\ call = None
          /\ result = "none"
          /\ all_in_band = FALSE
          /\ all_absent = FALSE
          /\ log = <<>>
          /\ env = DefaultEnv
          /\ attempt = 0
          /\ ready = TRUE
          /\ exit_code = None
          /\ raised = FALSE
          /\ read_ok = TRUE

NextOverload ==
    \/ Query /\ avg_response_time' # None /\ avg_response_time' > SCALE_UP_THRESHOLD
    \/ GetCurrentReplicas /\ read_ok' /\ running' = running
    \/ DecideScale
    \/ CheckCooldown
    \/ ScaleService /\ result' = "ok"
    \/ UpdateScaleState
    \/ Sleep

SpecOverload == InitOverload /\ [][NextOverload]_vars /\ WF_vars(NextOverload)

\* ------------------------------------------------------------------------
\* Vocabulary of the properties
\* ------------------------------------------------------------------------
\* the region of a sample, as main() reports it (scaler.py:760-771)
Region(m) ==
    IF m = None THEN "absent"
    ELSE IF m > SCALE_UP_THRESHOLD THEN "up"
    ELSE IF m < SCALE_DOWN_THRESHOLD THEN "down"
    ELSE "in"

\* scaler.py:59-60
BreachesRequired(d) ==
    IF d = "up" THEN SCALE_UP_BREACHES_REQUIRED ELSE SCALE_DOWN_BREACHES_REQUIRED

\* the ticks of a scripted stream that have completed
Ticks == 1..Len(log)

\* direction of the actuation issued on tick i of a scripted stream
CallDirection(i) == IF log[i].call > log[i].replicas THEN "up" ELSE "down"

\* ------------------------------------------------------------------------
\* C1 (I1, I6): every target passed to scale_service lies within
\* [MIN_REPLICAS, MAX_REPLICAS], whatever replica counts were observed.
\* Fails: an observed count above MAX_REPLICAS + 1 is scaled down by one.
\* ------------------------------------------------------------------------
C1_TargetWithinLimits ==
    call # None => (MIN_REPLICAS <= call /\ call <= MAX_REPLICAS)

\* ------------------------------------------------------------------------
\* C2 (I2): a successful actuation completes no sooner than the cooldown of
\* the PREVIOUS successful actuation's direction after that actuation.
\* (pc = "update": scale_service has just returned True at time now, and
\* last_scale_time / last_scale_action still describe the previous success.)
\* Fails: check_cooldown uses the cooldown of the proposed direction.
\* ------------------------------------------------------------------------
C2_CooldownOfPreviousDirection ==
    (pc = "update" /\ last_scale_action # "none")
        => now - last_scale_time >=
              (IF last_scale_action = "up" THEN SCALE_UP_COOLDOWN
               ELSE SCALE_DOWN_COOLDOWN)

\* ------------------------------------------------------------------------
\* C3 (I3): an actuation in direction d is issued on a tick only if the
\* samples of that tick and of the BreachesRequired(d) - 1 ticks before it
\* were all out of band in direction d.
\* Fails: the breach counter does not know the direction of its breaches.
\* ------------------------------------------------------------------------
C3_SameDirectionConfirmation ==
    \A i \in Ticks :
        log[i].call # None =>
            \A j \in 0..(BreachesRequired(CallDirection(i)) - 1) :
                /\ i - j >= 1
                /\ Region(script[i - j]) = CallDirection(i)

\* ------------------------------------------------------------------------
\* C4: on a direction flip the breach count restarts at 1, and the
\* alternating stream [0.7, 0.1, 0.7, 0.1] observed at 2 replicas causes no
\* actuation.
\* Fails: a flip increments the counter, and the third sample scales up.
\* ------------------------------------------------------------------------
C4_FlipRestartsCount ==
    /\ \A i \in Ticks :
          (/\ i >= 2
           /\ Region(script[i]) \in {"up", "down"}
           /\ Region(script[i - 1]) \in {"up", "down"}
           /\ Region(script[i]) # Region(script[i - 1]))
              => log[i].breaches = 1
    /\ (script = <<7, 1, 7, 1>> /\ Len(log) >= 1 /\ log[1].replicas = 2)
          => \A i \in Ticks : log[i].call = None

\* ------------------------------------------------------------------------
\* C5: after a tick whose metric is absent the breach count is 0, so an
\* actuation in direction d issued after an absent sample has a full run of
\* BreachesRequired(d) consecutive breaches in direction d behind it, all
\* later than the absent sample; and [0.7, absent, 0.7, 0.7] observed at 2
\* replicas actuates only on the fourth sample, to 3.
\* Fails in its second part only, through the direction-blind counter of C3.
\* ------------------------------------------------------------------------
C5_AbsentResetsCount ==
    \A i \in Ticks : script[i] = None => log[i].breaches = 0

C5_MissingMetricScenario ==
    (script = <<7, None, 7, 7>> /\ Len(log) >= 1 /\ log[1].replicas = 2)
        => /\ \A i \in Ticks : i <= 3 => log[i].call = None
           /\ Len(log) >= 4 => (log[4].call = 3 /\ log[4].replicas = 2)

C5_FullRunAfterAbsent ==
    /\ C5_AbsentResetsCount
    /\ \A i \in Ticks : \A k \in Ticks :
          (log[i].call # None /\ k < i /\ script[k] = None)
              => \A j \in 0..(BreachesRequired(CallDirection(i)) - 1) :
                    /\ i - j > k
                    /\ Region(script[i - j]) = CallDirection(i)
    /\ C5_MissingMetricScenario

\* ------------------------------------------------------------------------
\* C6: a failed scale_service call leaves last_scale_time and
\* last_scale_action as they were: nothing changes them from the moment the
\* call fails to the end of its tick.
\* ------------------------------------------------------------------------
C6_FailedCallArmsNoCooldown ==
    [][(result = "failed" \/ result' = "failed")
          => (last_scale_time' = last_scale_time
              /\ last_scale_action' = last_scale_action)]_vars

\* a call failed while the cooldown of an earlier success was still recorded
C6_Witness ==
    /\ pc = "sleep"
    /\ result = "failed"
    /\ last_scale_action # "none"

\* ------------------------------------------------------------------------
\* C7 (I4): as long as every sample has been present and within
\* [SCALE_DOWN_THRESHOLD, SCALE_UP_THRESHOLD], scale_service is not called.
\* ------------------------------------------------------------------------
C7_InBandNeverActuates == all_in_band => (call = None /\ pc \notin {"scale", "update"})

\* the third tick of a stream at the scale-up threshold itself
C7_Witness ==
    /\ all_in_band
    /\ pc = "sleep"
    /\ now >= 2 * CHECK_INTERVAL
    /\ avg_response_time = SCALE_UP_THRESHOLD

\* ------------------------------------------------------------------------
\* C8 (I5): as long as every sample has been absent, scale_service is not
\* called.
\* ------------------------------------------------------------------------
C8_AbsentNeverActuates == all_absent => (call = None /\ pc \notin {"scale", "update"})

\* the fourth tick of a stream of absent samples, with replicas to remove
C8_Witness ==
    /\ all_absent
    /\ pc = "sleep"
    /\ now >= 3 * CHECK_INTERVAL
    /\ current_replicas > MIN_REPLICAS

\* ------------------------------------------------------------------------
\* C9 (R1): scale_service is never called with the replica count observed
\* on that tick.
\* ------------------------------------------------------------------------
C9_NeverTargetsCurrent == call # None => call # current_replicas

C9_Witness == call # None /\ result = "ok" /\ pc = "update"

\* ------------------------------------------------------------------------
\* C10: a scale-up decision returns min(MAX_REPLICAS, replicas + delta),
\* delta = 2 if metric / SCALE_UP_THRESHOLD > 2.0 and 1 otherwise; the
\* stream [1.5, 1.5] observed at 2 replicas does nothing on the first
\* sample and actuates from 2 to 4 on the second.
\* ------------------------------------------------------------------------
C10_ScaleUpTarget ==
    /\ \A i \in Ticks :
          (log[i].target # None /\ log[i].metric > SCALE_UP_THRESHOLD)
              => LET delta == IF log[i].metric > 2 * SCALE_UP_THRESHOLD
                              THEN 2 ELSE 1
                 IN log[i].target = Min(MAX_REPLICAS, log[i].replicas + delta)
    /\ (script[1] = 15 /\ script[2] = 15 /\ Len(log) >= 1 /\ log[1].replicas = 2)
          => /\ log[1].target = None
             /\ log[1].call = None
             /\ Len(log) >= 2 => (log[2].replicas = 2 /\ log[2].call = 4)

\* a sample of exactly twice the threshold added one replica, after a
\* severe one had added two
C10_Witness ==
    /\ Len(log) >= 4
    /\ log[2].metric = 15 /\ log[2].replicas = 2 /\ log[2].target = 4
    /\ log[4].metric = 12 /\ log[4].replicas = 4 /\ log[4].target = 5

\* ------------------------------------------------------------------------
\* C11: a scale-down decision steps by exactly one, however low the metric:
\* the target is replicas - 1 and not below MIN_REPLICAS; the stream
\* [0.1, 0.1, 0.1] observed at 3 replicas actuates on the third sample only,
\* to 2, and a fourth 0.1 within 60 s does not actuate.
\* ------------------------------------------------------------------------
C11_ScaleDownByOne ==
    /\ \A i \in Ticks :
          (/\ log[i].target # None
           /\ log[i].metric # None
           /\ log[i].metric < SCALE_DOWN_THRESHOLD)
              => /\ log[i].target = log[i].replicas - 1
                 /\ log[i].target >= MIN_REPLICAS
    /\ (/\ script[1] = 1 /\ script[2] = 1 /\ script[3] = 1
        /\ Len(log) >= 1 /\ log[1].replicas = 3)
          => /\ log[1].call = None
             /\ Len(log) >= 2 => log[2].call = None
             /\ Len(log) >= 3 => (log[3].replicas = 3 /\ log[3].call = 2)
             /\ (/\ Len(log) >= 4
                 /\ script[4] = 1
                 /\ log[4].time - log[3].time < SCALE_DOWN_COOLDOWN)
                   => log[4].call = None

\* the scale-down of the third sample succeeded and the fourth did nothing
C11_Witness ==
    /\ Len(log) >= 4
    /\ script = <<1, 1, 1, 1>>
    /\ log[3].replicas = 3 /\ log[3].call = 2 /\ log[3].result = "ok"
    /\ log[4].replicas = 2 /\ log[4].call = None

\* ------------------------------------------------------------------------
\* C12: when the breach count reaches the number required for the region of
\* the sample but the observed replica count is at (or past) the limit of
\* that region, decide_scale returns None and leaves the breach count at 0,
\* and no actuation follows.
\* ------------------------------------------------------------------------
C12_ClampResetsBreaches ==
    [][(/\ pc = "decide"
        /\ avg_response_time # None
        /\ \/ /\ avg_response_time > SCALE_UP_THRESHOLD
              /\ consecutive_threshold_breaches + 1 >= SCALE_UP_BREACHES_REQUIRED
              /\ current_replicas >= MAX_REPLICAS
           \/ /\ avg_response_time < SCALE_DOWN_THRESHOLD
              /\ consecutive_threshold_breaches + 1 >= SCALE_DOWN_BREACHES_REQUIRED
              /\ current_replicas <= MIN_REPLICAS)
          => (/\ target_replicas' = None
              /\ consecutive_threshold_breaches' = 0
              /\ pc' = "sleep")]_vars

\* a confirmed overload at the ceiling: nothing returned, counter back at 0
C12_Witness ==
    /\ pc = "sleep"
    /\ avg_response_time # None
    /\ avg_response_time > SCALE_UP_THRESHOLD
    /\ current_replicas = MAX_REPLICAS
    /\ target_replicas = None
    /\ consecutive_threshold_breaches = 0

\* ------------------------------------------------------------------------
\* C13: when the docker command fails, get_current_replicas returns
\* MIN_REPLICAS, and on that tick no scale-down is decided or issued and no
\* target below MIN_REPLICAS is decided or issued.
\* ------------------------------------------------------------------------
C13_ReadFailureIsConservative ==
    ~read_ok =>
        /\ current_replicas = MIN_REPLICAS
        /\ target_replicas # None =>
              (target_replicas > current_replicas /\ target_replicas >= MIN_REPLICAS)
        /\ call # None => (call > current_replicas /\ call >= MIN_REPLICAS)

\* a scale-up was issued on a tick whose replica read had failed
C13_Witness ==
    /\ ~read_ok
    /\ call # None
    /\ call > MIN_REPLICAS
    /\ pc = "sleep"

\* ------------------------------------------------------------------------
\* C14: the loop is not left while a scale_service call is in progress, and
\* whenever an interrupt ends the loop the exit code is 0.
\* Fails: KeyboardInterrupt is raised inside subprocess.run as anywhere else.
\* ------------------------------------------------------------------------
C14_NoExitMidActuator ==
    [][(pc \in LoopPositions /\ pc' = "exited")
          => (pc # "scale" /\ exit_code' = 0)]_vars

\* ------------------------------------------------------------------------
\* C15: under a configuration with MIN_REPLICAS > MAX_REPLICAS no tick is
\* executed and the actuator is never called.
\* Fails: nothing compares the two limits; the loop runs as usual.
\* ------------------------------------------------------------------------
C15_InvalidConfigIsFatal ==
    MIN_REPLICAS > MAX_REPLICAS
        => (pc \in {"startup", "query", "exited"} /\ now = 0 /\ call = None)

\* ------------------------------------------------------------------------
\* C16: no tick runs before a health check has succeeded; at most
\* MAX_RETRIES checks are made; the loop is entered as soon as one succeeds;
\* when all have failed the process has exited with code 1 without a tick
\* or an actuator call.
\* ------------------------------------------------------------------------
C16_ReadinessBeforeTicks ==
    /\ attempt <= MAX_RETRIES
    /\ pc = "startup" => attempt < MAX_RETRIES
    /\ pc \in LoopPositions => ready
    /\ ready => pc # "startup"
    /\ (~ready /\ attempt = MAX_RETRIES) => (pc = "exited" /\ exit_code = 1)
    /\ ~ready => (/\ pc \in {"startup", "exited"}
                  /\ now = 0
                  /\ avg_response_time = None
                  /\ call = None
                  /\ ~raised)

\* every health check failed
C16_Witness ==
    /\ pc = "exited"
    /\ exit_code = 1
    /\ attempt = MAX_RETRIES
    /\ ~ready

\* ------------------------------------------------------------------------
\* C17: an exception raised inside a tick ends that tick only: the loop is
\* at its sleep (or has been interrupted), the controller state is as it
\* was; the process ends only through an interrupt or a failed start-up, and
\* every position of the loop has a next step while the clock of the model
\* has not run out.
\* ------------------------------------------------------------------------
C17_ExceptionConfinedToTick ==
    /\ [](/\ raised => (pc = "sleep" \/ (pc = "exited" /\ exit_code = 0))
          /\ pc = "exited" => (exit_code = 0 \/ (exit_code = 1 /\ ~ready))
          /\ (pc \in LoopPositions
              /\ (pc = "sleep" => now + CHECK_INTERVAL <= MaxTime))
                => ENABLED Next)
    /\ [][(raised' /\ ~raised)
             => (/\ consecutive_threshold_breaches' = consecutive_threshold_breaches
                 /\ last_scale_time' = last_scale_time
                 /\ last_scale_action' = last_scale_action
                 /\ call' = None)]_vars
    /\ [][(raised /\ pc = "sleep" /\ pc' # "exited")
             => (pc' = "query" /\ now' = now + CHECK_INTERVAL)]_vars

\* an exception in a tick that had a breach behind it
C17_Witness ==
    /\ raised
    /\ pc = "sleep"
    /\ consecutive_threshold_breaches = 1

\* ------------------------------------------------------------------------
\* C18: the metric history never holds more than HISTORY_LIMIT entries and
\* the action history never more than SCALING_HISTORY_LIMIT; an append to a
\* full history drops exactly its oldest entry and keeps the order of the
\* others.
\* ------------------------------------------------------------------------
\* h2 is h with one new entry at the end, the oldest one dropped if h was full
IsFifoAppend(h, h2, limit) ==
    LET kept == IF Len(h) >= limit THEN SubSeq(h, 2, Len(h)) ELSE h
    IN /\ Len(h2) = Len(kept) + 1
       /\ \A i \in 1..Len(kept) : h2[i] = kept[i]

C18_BoundedFifoHistories ==
    /\ [](Len(history) <= HISTORY_LIMIT /\ Len(scaling_history) <= SCALING_HISTORY_LIMIT)
    /\ [][(pc = "decide" /\ avg_response_time # None)
             => (/\ IsFifoAppend(history, history', HISTORY_LIMIT)
                 /\ history'[Len(history')].timestamp = now
                 /\ history'[Len(history')].metric = avg_response_time)]_vars
    /\ [][(pc = "scale" /\ pc' # "scale")
             => (/\ IsFifoAppend(scaling_history, scaling_history', SCALING_HISTORY_LIMIT)
                 /\ scaling_history'[Len(scaling_history')].timestamp = now'
                 /\ scaling_history'[Len(scaling_history')].target_replicas = target_replicas)]_vars

\* both histories are full and have lost their oldest entries
C18_Witness ==
    /\ Len(history) = HISTORY_LIMIT
    /\ history[1].timestamp > PastTime(1)
    /\ Len(scaling_history) = SCALING_HISTORY_LIMIT
    /\ scaling_history[1].timestamp > PastTime(2)

\* ------------------------------------------------------------------------
\* C20: a decided target that differs from the observed count is passed to
\* scale_service on the same tick unless a successful actuation is recorded
\* and less than the cooldown of ITS direction has passed since.
\* Fails: the gate compares with the cooldown of the proposed direction.
\* ------------------------------------------------------------------------
C20_GateUsesLastDirection ==
    /\ call # None => call = target_replicas
    /\ (/\ pc = "sleep"
        /\ target_replicas # None
        /\ target_replicas # current_replicas
        /\ call = None)
          => (/\ last_scale_action # "none"
              /\ now - last_scale_time <
                    (IF last_scale_action = "up" THEN SCALE_UP_COOLDOWN
                     ELSE SCALE_DOWN_COOLDOWN))

\* ------------------------------------------------------------------------
\* C21: the breach count is 0 after every tick whose sample is in band or
\* absent, and after every tick on which the required number of breaches is
\* reached, whether the decision was clamped at a limit, postponed by the
\* cooldown, or actuated with or without success.
\* ------------------------------------------------------------------------
C21_BreachCountReset ==
    /\ [][pc = "decide" =>
            (LET reg   == Region(avg_response_time)
                 fires == /\ reg \in {"up", "down"}
                          /\ consecutive_threshold_breaches + 1 >= BreachesRequired(reg)
             IN (reg \in {"in", "absent"} \/ fires)
                    => (consecutive_threshold_breaches' = 0))]_vars
    /\ [][(pc \in {"cooldown", "scale", "update"}) =>
            (consecutive_threshold_breaches' = consecutive_threshold_breaches)]_vars

\* a tick whose actuation failed ends with the count at 0
C21_Witness ==
    /\ pc = "sleep"
    /\ result = "failed"
    /\ call # None
    /\ consecutive_threshold_breaches = 0

\* ------------------------------------------------------------------------
\* C22: a sample equal to SCALE_UP_THRESHOLD or to SCALE_DOWN_THRESHOLD is in
\* band: its tick yields no target and no call and leaves the breach count
\* at 0, whatever run of breaches preceded it.
\* ------------------------------------------------------------------------
C22_ThresholdsExclusive ==
    \A i \in Ticks :
        log[i].metric \in {SCALE_UP_THRESHOLD, SCALE_DOWN_THRESHOLD}
            => (/\ log[i].target = None
                /\ log[i].call = None
                /\ log[i].breaches = 0)

\* a sample at the upper threshold between two samples above it: the third
\* tick starts a new run instead of completing the first
C22_Witness ==
    /\ Len(log) >= 3
    /\ log[1].metric > SCALE_UP_THRESHOLD /\ log[1].breaches = 1
    /\ log[2].metric = SCALE_UP_THRESHOLD /\ log[2].breaches = 0
    /\ log[3].metric > SCALE_UP_THRESHOLD /\ log[3].breaches = 1
    /\ log[3].call = None

\* ------------------------------------------------------------------------
\* C23: last_scale_time is written only after scale_service has returned
\* True, with the time of that moment, and no scale_service call is issued
\* sooner after it than the cooldown of the recorded action.
\* Fails through the defect of C2: the gate waits for the cooldown of the
\* proposed action.
\* ------------------------------------------------------------------------
C23_CooldownFromCompletion ==
    /\ [][(last_scale_time' # last_scale_time \/ last_scale_action' # last_scale_action)
             => (pc = "update" /\ result = "ok" /\ last_scale_time' = now)]_vars
    /\ []((pc = "scale" /\ last_scale_action # "none")
             => now - last_scale_time >=
                    (IF last_scale_action = "up" THEN SCALE_UP_COOLDOWN
                     ELSE SCALE_DOWN_COOLDOWN))

\* what holds of C23: the write follows the successful return, and a call is
\* issued no sooner after it than the cooldown of the action being issued
C23_StampedAfterReturn ==
    /\ [][(last_scale_time' # last_scale_time \/ last_scale_action' # last_scale_action)
             => (pc = "update" /\ result = "ok" /\ last_scale_time' = now)]_vars
    /\ [][(pc = "scale") => (last_scale_time' = last_scale_time)]_vars
    /\ []((pc = "scale" /\ last_scale_action # "none")
             => now - last_scale_time >=
                    (IF target_replicas > current_replicas THEN SCALE_UP_COOLDOWN
                     ELSE SCALE_DOWN_COOLDOWN))

\* ------------------------------------------------------------------------
\* C24: scale_service is entered only on a tick that has made no call yet,
\* and a tick whose call failed goes to its sleep: at most one call per tick,
\* none begun before the previous one has returned.
\* ------------------------------------------------------------------------
C24_OneCallPerTick ==
    /\ pc = "scale" => (call = None /\ result = "none")
    /\ call # None => (pc \in {"update", "sleep"} /\ result # "none")
    /\ result = "failed" => (pc = "sleep" /\ call # None)
    /\ result = "ok" => call # None

\* a call that failed, on a tick after an earlier success
C24_Witness ==
    /\ pc = "sleep"
    /\ result = "failed"
    /\ call = target_replicas
    /\ last_scale_action = "up"

\* ------------------------------------------------------------------------
\* C25: the metric history holds one entry per tick whose metric was
\* present, in the order of the ticks, each with the metric and the replica
\* count of its tick; a tick whose metric is absent adds nothing.
\* ------------------------------------------------------------------------
\* the completed ticks whose metric was present
PresentTicks == {i \in Ticks : log[i].metric # None}

\* the tick in progress has been through decide_scale with a metric
DecidedWithMetric ==
    pc \in {"cooldown", "scale", "update", "sleep"} /\ avg_response_time # None

C25_HistoryOfPresentSamples ==
    /\ Len(history) = Cardinality(PresentTicks) + (IF DecidedWithMetric THEN 1 ELSE 0)
    /\ \A i \in PresentTicks :
          LET k == Cardinality({j \in PresentTicks : j <= i})
          IN /\ history[k].metric = log[i].metric
             /\ history[k].replicas = log[i].replicas
    /\ DecidedWithMetric =>
          /\ history[Len(history)].metric = avg_response_time
          /\ history[Len(history)].replicas = current_replicas

\* an absent sample between two present ones: two entries after three ticks
C25_Witness ==
    /\ Len(log) = 3
    /\ log[1].metric # None
    /\ log[2].metric = None
    /\ log[3].metric # None
    /\ log[3].metric # log[1].metric
    /\ Len(history) = 2

\* ------------------------------------------------------------------------
\* C26: the target decide_scale returns and the breach count it leaves are
\* determined by the breach count, the metric and the replica count alone,
\* and its step leaves last_scale_time, last_scale_action and the action
\* history as they were.
\* ------------------------------------------------------------------------
\* the outcome for breach count b, sample m and r replicas
EngineResult(b, m, r) ==
    LET reg == Region(m)
    IN IF reg \in {"absent", "in"} THEN [target |-> None, breaches |-> 0]
       ELSE IF b + 1 < BreachesRequired(reg) THEN [target |-> None, breaches |-> b + 1]
       ELSE IF reg = "up"
       THEN [target |-> IF r >= MAX_REPLICAS THEN None
                        ELSE IF m > 2 * SCALE_UP_THRESHOLD THEN Min(MAX_REPLICAS, r + 2)
                        ELSE r + 1,
             breaches |-> 0]
       ELSE [target |-> IF r <= MIN_REPLICAS THEN None ELSE r - 1, breaches |-> 0]

C26_EngineIgnoresCooldown ==
    [][pc = "decide" =>
          (LET e == EngineResult(consecutive_threshold_breaches, avg_response_time,
                                 current_replicas)
           IN /\ target_replicas' = e.target
              /\ consecutive_threshold_breaches' = e.breaches
              /\ last_scale_time' = last_scale_time
              /\ last_scale_action' = last_scale_action
              /\ scaling_history' = scaling_history)]_vars

\* a scale-up decided while the cooldown of the last action is running
C26_Witness ==
    /\ pc = "cooldown"
    /\ last_scale_action # "none"
    /\ now - last_scale_time < SCALE_UP_COOLDOWN
    /\ target_replicas > current_replicas
    /\ scaling_history # <<>>

\* ------------------------------------------------------------------------
\* C27: a target above the observed replica count is decided and passed to
\* scale_service only on a tick whose metric is above SCALE_UP_THRESHOLD,
\* and a target below it only on a tick whose metric is below
\* SCALE_DOWN_THRESHOLD.
\* ------------------------------------------------------------------------
C27_DirectionFollowsRegion ==
    /\ (target_replicas # None /\ target_replicas > current_replicas)
          => Region(avg_response_time) = "up"
    /\ (target_replicas # None /\ target_replicas < current_replicas)
          => Region(avg_response_time) = "down"
    /\ (call # None /\ call > current_replicas) => Region(avg_response_time) = "up"
    /\ (call # None /\ call < current_replicas) => Region(avg_response_time) = "down"

\* a successful scale-down on a tick with a low metric
C27_Witness ==
    /\ pc = "sleep"
    /\ result = "ok"
    /\ call < current_replicas
    /\ avg_response_time # None
    /\ avg_response_time < SCALE_DOWN_THRESHOLD

\* ------------------------------------------------------------------------
\* C28: on a tick whose metric is above SCALE_UP_THRESHOLD, scale_service is
\* never called with a target below the number of replicas that are running,
\* also when the replica count could not be read.
\* Fails: after a failed read the target is counted from MIN_REPLICAS.
\* ------------------------------------------------------------------------
C28_NoShrinkUnderOverload ==
    (pc = "scale" /\ Region(avg_response_time) = "up") => target_replicas >= running

\* ------------------------------------------------------------------------
\* C29: under lasting overload, with every actuation succeeding and the
\* replica source following the actuations, a tick eventually observes
\* MAX_REPLICAS replicas: the cooldown gate and the reset of the breach
\* count on a postponed decision do not hold the scale-up back for good.
\* ------------------------------------------------------------------------
C29_OverloadReachesMax == <>(current_replicas = MAX_REPLICAS)

\* MAX_REPLICAS observed after a scale-up that had to wait for the cooldown
\* of an earlier actuation
C29_Witness ==
    /\ pc = "decide"
    /\ current_replicas = MAX_REPLICAS
    /\ last_scale_action = "up"
    /\ last_scale_time >= 2 * CHECK_INTERVAL + SCALE_UP_COOLDOWN

\* ------------------------------------------------------------------------
\* C30: a tick whose decision the cooldown gate postpones makes no call and
\* leaves last_scale_time, last_scale_action and the action history as they
\* were; its breach count is 0 already, and a tick that starts from a
\* count of 0 decides nothing, so the postponed action comes back only
\* after the required number of new breaches.
\* ------------------------------------------------------------------------
C30_PostponedLeavesNoTrace ==
    /\ [][(pc = "cooldown" /\ pc' = "sleep")
             => (/\ call' = None
                 /\ result' = "none"
                 /\ last_scale_time' = last_scale_time
                 /\ last_scale_action' = last_scale_action
                 /\ scaling_history' = scaling_history
                 /\ consecutive_threshold_breaches' = 0)]_vars
    /\ []((pc = "sleep" /\ target_replicas # None /\ call = None)
             => consecutive_threshold_breaches = 0)
    /\ [][(pc = "sleep")
             => (/\ target_replicas' = None
                 /\ consecutive_threshold_breaches' = consecutive_threshold_breaches
                 /\ last_scale_time' = last_scale_time
                 /\ last_scale_action' = last_scale_action
                 /\ scaling_history' = scaling_history)]_vars
    /\ [][(pc = "decide" /\ consecutive_threshold_breaches = 0)
             => (target_replicas' = None)]_vars

\* a scale-up postponed after an earlier successful one
C30_Witness ==
    /\ pc = "sleep"
    /\ target_replicas # None
    /\ target_replicas > current_replicas
    /\ call = None
    /\ last_scale_action = "up"
    /\ scaling_history # <<>>
    /\ consecutive_threshold_breaches = 0

\* ------------------------------------------------------------------------
\* C31: the action history holds one record per scale_service call, in the
\* order of the calls, each with the target that was requested and the
\* value the call returned; ticks without a call add nothing, and the
\* successful records are never more than the records.
\* ------------------------------------------------------------------------
\* the completed ticks on which scale_service was called
CallTicks == {i \in Ticks : log[i].call # None}

\* the tick in progress has called scale_service
CalledThisTick == call # None

C31_OneRecordPerCall ==
    /\ Len(scaling_history) = Cardinality(CallTicks) + (IF CalledThisTick THEN 1 ELSE 0)
    /\ \A i \in CallTicks :
          LET k == Cardinality({j \in CallTicks : j <= i})
          IN /\ scaling_history[k].target_replicas = log[i].call
             /\ scaling_history[k].success = (log[i].result = "ok")
    /\ CalledThisTick =>
          /\ scaling_history[Len(scaling_history)].target_replicas = call
          /\ scaling_history[Len(scaling_history)].success = (result = "ok")
    /\ Cardinality({k \in 1..Len(scaling_history) : scaling_history[k].success})
          <= Len(scaling_history)

\* a failed call and a later successful one, with a tick without a call
\* between them
C31_Witness ==
    /\ Len(log) = 4
    /\ log[2].call # None /\ log[2].result = "failed"
    /\ log[3].call = None
    /\ log[4].call # None /\ log[4].result = "ok"
    /\ Len(scaling_history) = 2

\* ------------------------------------------------------------------------
\* C32: the breach counter is never negative and stays below the larger of
\* SCALE_UP_BREACHES_REQUIRED and SCALE_DOWN_BREACHES_REQUIRED, whatever
\* samples and replica counts the ticks see.
\* ------------------------------------------------------------------------
C32_BreachCounterBounded ==
    /\ 0 <= consecutive_threshold_breaches
    /\ consecutive_threshold_breaches <
          Max(SCALE_UP_BREACHES_REQUIRED, SCALE_DOWN_BREACHES_REQUIRED)

\* the largest value: two low samples counted, the third still to come
C32_Witness ==
    /\ pc = "sleep"
    /\ avg_response_time # None
    /\ avg_response_time < SCALE_DOWN_THRESHOLD
    /\ consecutive_threshold_breaches = SCALE_DOWN_BREACHES_REQUIRED - 1

====
